---- MODULE Spec2Model ----
(***************************************************************************)
(* Typed graphs, graph morphisms and the force layout of graph-morphism-viz *)
(*                                                                         *)
(*   src/src/graph.ts         TypeGraph, Graph, Morphism (assembly)        *)
(*   src/src/model.ts         Model (the parameter store)                  *)
(*   src/src/graph-layout.ts  GraphLayouter (one d3 force simulation)      *)
(*   src/src/app.ts           showGraph, NodesView, dragNodes              *)
(*   src/unnamed/part_003     run, showMorphism                            *)
(*                                                                         *)
(* SpecAssemble applies the three assemble functions to inputs drawn from  *)
(* bounded sets.  Spec runs the application: engines, ticks, drag gestures,*)
(* pin toggles, parameter changes and morphism selections.                 *)
(***************************************************************************)
EXTENDS Integers, Sequences, FiniteSets, TLC

VARIABLES asmOp, asmIn, asmOut,
          values, dispatch, instanceCount, engines, liveNodes, views, gestures, thrown,
          notified, tickEnd

asmVars == <<asmOp, asmIn, asmOut>>
appVars == <<values, dispatch, instanceCount, engines, liveNodes, views, gestures, thrown,
            notified, tickEnd>>
vars == <<asmOp, asmIn, asmOut,
          values, dispatch, instanceCount, engines, liveNodes, views, gestures, thrown,
          notified, tickEnd>>

(* notified names the key of the set(key, value) that ran in the last      *)
(* step, if one did, and lists the callbacks dispatch.call invoked for it; *)
(* tickEnd holds, for every node, the position it   *)
(* had when the most recent tick of an engine of its graph completed.      *)

-----------------------------------------------------------------------------
(* JavaScript values.  A value that may be undefined is a set with at most  *)
(* one element; a StringMap is a function whose domain is the keys present. *)

Undefined == {}
Def(v) == {v}
IsDefined(o) == o # {}
Val(o) == CHOOSE v \in o : TRUE

EmptyMap == <<>>
Get(map, k) == IF k \in DOMAIN map THEN Def(map[k]) ELSE Undefined
Put(map, k, v) == [x \in (DOMAIN map) \cup {k} |-> IF x = k THEN v ELSE map[x]]
Values(map) == {map[k] : k \in DOMAIN map}

(* A call either returns a value or throws an Error.                       *)
NoCall == [ok |-> FALSE, error |-> "", value |-> Undefined]
Return(v) == [ok |-> TRUE, error |-> "", value |-> Def(v)]
Throw(msg) == [ok |-> FALSE, error |-> msg, value |-> Undefined]

-----------------------------------------------------------------------------
(* graph.ts: TypeGraph                                                      *)

RECURSIVE assembleNodeTypesFrom(_, _, _)
assembleNodeTypesFrom(nodeTypes, i, types) ==
  IF i > Len(nodeTypes) THEN types
  ELSE assembleNodeTypesFrom(nodeTypes, i + 1,
                             Put(types, nodeTypes[i].name, nodeTypes[i]))

assembleNodeTypes(nodeTypes) == assembleNodeTypesFrom(nodeTypes, 1, EmptyMap)

(* resolveSignatures dropping a signature whose target type is unknown     *)
RECURSIVE resolveSignatures_skipUnknownTarget(_, _, _, _)
resolveSignatures_skipUnknownTarget(nodeTypes, signatures, j, acc) ==
  IF j > Len(signatures) THEN Return(acc)
  ELSE LET srcType == Get(nodeTypes, signatures[j][1])
           tgtType == Get(nodeTypes, signatures[j][2])
       IN IF ~IsDefined(srcType) THEN Throw("unknown source node type")
          ELSE IF ~IsDefined(tgtType)
               THEN resolveSignatures_skipUnknownTarget(nodeTypes, signatures, j + 1, acc)
          ELSE resolveSignatures_skipUnknownTarget(nodeTypes, signatures, j + 1,
                                 Append(acc, <<Val(srcType), Val(tgtType)>>))

(* stub.signatures.map(...): resolves the names of each signature in order *)
RECURSIVE resolveSignatures(_, _, _, _)
resolveSignatures(nodeTypes, signatures, j, acc) ==
  IF j > Len(signatures) THEN Return(acc)
  ELSE LET srcType == Get(nodeTypes, signatures[j][1])
           tgtType == Get(nodeTypes, signatures[j][2])
       IN IF ~IsDefined(srcType) THEN Throw("unknown source node type")
          ELSE IF ~IsDefined(tgtType) THEN Throw("unknown target node type")
          ELSE resolveSignatures(nodeTypes, signatures, j + 1,
                                 Append(acc, <<Val(srcType), Val(tgtType)>>))

EdgeType(name, signatures) == [name |-> name, signatures |-> signatures]

RECURSIVE assembleEdgeTypesFrom(_, _, _, _)
assembleEdgeTypesFrom(nodeTypes, stubs, i, types) ==
  IF i > Len(stubs) THEN Return(types)
  ELSE LET signatures == resolveSignatures(nodeTypes, stubs[i].signatures, 1, <<>>)
       IN IF ~signatures.ok THEN signatures
          ELSE assembleEdgeTypesFrom(nodeTypes, stubs, i + 1,
                 Put(types, stubs[i].name, EdgeType(stubs[i].name, Val(signatures.value))))

assembleEdgeTypes(nodeTypes, stubs) == assembleEdgeTypesFrom(nodeTypes, stubs, 1, EmptyMap)

TypeGraph_assemble(nodeTypes, edgeTypes) ==
  LET nodes == assembleNodeTypes(nodeTypes)
      edges == assembleEdgeTypes(nodes, edgeTypes)
  IN IF ~edges.ok THEN edges
     ELSE Return([nodes |-> nodes, edges |-> Val(edges.value)])

(* allowsSignature with the target comparison dropped                     *)
allowsSignature_sourceOnly(edgeType, sourceType, targetType) ==
  \E j \in 1..Len(edgeType.signatures) :
     edgeType.signatures[j][1].oid = sourceType.oid

(* allowsSignature accepting a signature in either direction               *)
allowsSignature_eitherDirection(edgeType, sourceType, targetType) ==
  \E j \in 1..Len(edgeType.signatures) :
     \/ /\ edgeType.signatures[j][1].oid = sourceType.oid
        /\ edgeType.signatures[j][2].oid = targetType.oid
     \/ /\ edgeType.signatures[j][1].oid = targetType.oid
        /\ edgeType.signatures[j][2].oid = sourceType.oid

(* signature[0] === sourceType: node types are objects, compared by        *)
(* identity (oid), never by name                                           *)
allowsSignature(edgeType, sourceType, targetType) ==
  \E j \in 1..Len(edgeType.signatures) :
     LET correctSource == edgeType.signatures[j][1].oid = sourceType.oid
         correctTarget == edgeType.signatures[j][2].oid = targetType.oid
     IN correctSource /\ correctTarget

-----------------------------------------------------------------------------
(* graph.ts: Graph                                                          *)

(* new Graph.Node(types, stub): the position read from the stub is         *)
(* overwritten by two draws of RANDOM_POSITION; rnd holds the two draws.   *)
Node(types, stub, rnd, oid) ==
  LET type == Get(types.nodes, stub.type)
  IN IF ~IsDefined(type) THEN Throw("unknown node type")
     ELSE Return([id |-> stub.id, type |-> Val(type),
                  x |-> rnd[1], y |-> rnd[2],
                  dragging |-> FALSE, pinned |-> FALSE, oid |-> oid])

(* new Graph.Edge resolving the source before the edge type                *)
Edge_sourceFirst(types, nodes, stub) ==
  LET type == Get(types.edges, stub.type)
      source == Get(nodes, stub.source)
      target == Get(nodes, stub.target)
  IN IF ~IsDefined(source) THEN Throw("unknown edge source")
     ELSE IF ~IsDefined(type) THEN Throw("unknown edge type")
     ELSE IF ~IsDefined(target) THEN Throw("unknown edge target")
     ELSE IF ~allowsSignature(Val(type), Val(source).type, Val(target).type)
          THEN Throw("invalid types for source and target")
     ELSE Return([id |-> stub.id, type |-> Val(type),
                  source |-> Val(source), target |-> Val(target),
                  labelSize |-> [width |-> 0, height |-> 0]])

(* new Graph.Edge(types, nodes, stub)                                      *)
Edge(types, nodes, stub) ==
  LET type == Get(types.edges, stub.type)
      source == Get(nodes, stub.source)
      target == Get(nodes, stub.target)
  IN IF ~IsDefined(type) THEN Throw("unknown edge type")
     ELSE IF ~IsDefined(source) THEN Throw("unknown edge source")
     ELSE IF ~IsDefined(target) THEN Throw("unknown edge target")
     ELSE IF ~allowsSignature(Val(type), Val(source).type, Val(target).type)
          THEN Throw("invalid types for source and target")
     ELSE Return([id |-> stub.id, type |-> Val(type),
                  source |-> Val(source), target |-> Val(target),
                  labelSize |-> [width |-> 0, height |-> 0]])

(* assembleNodes keeping the first node of a repeated id                   *)
RECURSIVE assembleNodesFrom_keepFirst(_, _, _, _, _)
assembleNodesFrom_keepFirst(types, stubs, rnd, i, nodes) ==
  IF i > Len(stubs) THEN Return(nodes)
  ELSE LET node == Node(types, stubs[i], rnd[i], i)
       IN IF ~node.ok THEN node
          ELSE assembleNodesFrom_keepFirst(types, stubs, rnd, i + 1,
                 IF stubs[i].id \in DOMAIN nodes THEN nodes
                 ELSE Put(nodes, stubs[i].id, Val(node.value)))

RECURSIVE assembleNodesFrom(_, _, _, _, _)
assembleNodesFrom(types, stubs, rnd, i, nodes) ==
  IF i > Len(stubs) THEN Return(nodes)
  ELSE LET node == Node(types, stubs[i], rnd[i], i)
       IN IF ~node.ok THEN node
          ELSE assembleNodesFrom(types, stubs, rnd, i + 1,
                                 Put(nodes, stubs[i].id, Val(node.value)))

assembleNodes(types, stubs, rnd) == assembleNodesFrom(types, stubs, rnd, 1, EmptyMap)

RECURSIVE assembleEdgesFrom(_, _, _, _, _)
assembleEdgesFrom(types, nodes, stubs, i, edges) ==
  IF i > Len(stubs) THEN Return(edges)
  ELSE LET edge == Edge(types, nodes, stubs[i])
       IN IF ~edge.ok THEN edge
          ELSE assembleEdgesFrom(types, nodes, stubs, i + 1,
                                 Put(edges, stubs[i].id, Val(edge.value)))

assembleEdges(types, nodes, stubs) == assembleEdgesFrom(types, nodes, stubs, 1, EmptyMap)

Graph_assemble(types, nodes, edges, rnd) ==
  LET graphNodes == assembleNodes(types, nodes, rnd)
  IN IF ~graphNodes.ok THEN graphNodes
     ELSE LET graphEdges == assembleEdges(types, Val(graphNodes.value), edges)
          IN IF ~graphEdges.ok THEN graphEdges
             ELSE Return([types |-> types,
                          nodes |-> Val(graphNodes.value),
                          edges |-> Val(graphEdges.value)])

-----------------------------------------------------------------------------
(* graph.ts: Morphism                                                       *)

(* One pass of "for (const [n1, n2] of mapping)" over the node pairs or    *)
(* the edge pairs; st carries the four maps of one kind and the counter.   *)
RECURSIVE mapPairsFrom(_, _, _, _, _)
mapPairsFrom(domainElems, codomainElems, mapping, i, st) ==
  IF i > Len(mapping) THEN st
  ELSE LET e1 == mapping[i][1]
           e2 == mapping[i][2]
       IN mapPairsFrom(domainElems, codomainElems, mapping, i + 1,
            [fromDomain |-> Put(st.fromDomain, e1, Get(codomainElems, e2)),
             fromCodomain |-> Put(st.fromCodomain, e2, Get(domainElems, e1)),
             classFromDomain |-> Put(st.classFromDomain, e1, st.numEquivClasses),
             classFromCodomain |-> Put(st.classFromCodomain, e2, st.numEquivClasses),
             numEquivClasses |-> st.numEquivClasses + 1])

(* Morphism.assemble giving class 0 to every node of the domain before the *)
(* pairs are read                                                          *)
Morphism_assemble_classForAll(domain, codomain, nodeMapping, edgeMapping) ==
  LET start == [fromDomain |-> EmptyMap, fromCodomain |-> EmptyMap,
                classFromDomain |-> [id \in DOMAIN domain.nodes |-> 0],
                classFromCodomain |-> EmptyMap, numEquivClasses |-> 0]
      empty(n) == [fromDomain |-> EmptyMap, fromCodomain |-> EmptyMap,
                   classFromDomain |-> EmptyMap, classFromCodomain |-> EmptyMap,
                   numEquivClasses |-> n]
      ns == mapPairsFrom(domain.nodes, codomain.nodes, nodeMapping, 1, start)
      es == mapPairsFrom(domain.edges, codomain.edges, edgeMapping, 1,
                         empty(ns.numEquivClasses))
  IN Return([domain |-> domain, codomain |-> codomain,
             mappingFromDomain |-> [nodes |-> ns.fromDomain, edges |-> es.fromDomain],
             mappingFromCodomain |-> [nodes |-> ns.fromCodomain, edges |-> es.fromCodomain],
             numMappedElements |-> Undefined,
             equivalenceClassFromDomain |->
               [nodes |-> ns.classFromDomain, edges |-> es.classFromDomain],
             equivalenceClassFromCodomain |->
               [nodes |-> ns.classFromCodomain, edges |-> es.classFromCodomain]])

Morphism_assemble(domain, codomain, nodeMapping, edgeMapping) ==
  LET empty(n) == [fromDomain |-> EmptyMap, fromCodomain |-> EmptyMap,
                   classFromDomain |-> EmptyMap, classFromCodomain |-> EmptyMap,
                   numEquivClasses |-> n]
      ns == mapPairsFrom(domain.nodes, codomain.nodes, nodeMapping, 1, empty(0))
      es == mapPairsFrom(domain.edges, codomain.edges, edgeMapping, 1,
                         empty(ns.numEquivClasses))
  IN Return([domain |-> domain, codomain |-> codomain,
             mappingFromDomain |-> [nodes |-> ns.fromDomain, edges |-> es.fromDomain],
             mappingFromCodomain |-> [nodes |-> ns.fromCodomain, edges |-> es.fromCodomain],
             numMappedElements |-> Undefined,
             equivalenceClassFromDomain |->
               [nodes |-> ns.classFromDomain, edges |-> es.classFromDomain],
             equivalenceClassFromCodomain |->
               [nodes |-> ns.classFromCodomain, edges |-> es.classFromCodomain]])

-----------------------------------------------------------------------------
(* Inputs of the assemble functions                                        *)

MaxNodeTypes == 2
MaxEdgeTypes == 1
MaxSignatures == 2
MaxNodes == 2
MaxEdges == 1
MaxPairs == 2

SeqsUpTo(S, n) == UNION {[1..k -> S] : k \in 0..n}

(* the elevator schema of the example data (node types used by the graphs  *)
(* below; edge types on, call, holds, next_up)                             *)
ExampleNodeTypes ==
  << [name |-> "elevator", radius |-> 20, oid |-> 1],
     [name |-> "floor", radius |-> 20, oid |-> 2],
     [name |-> "request", radius |-> 20, oid |-> 3] >>

ExampleEdgeTypes ==
  << [name |-> "on", signatures |-> << <<"elevator", "floor">> >>],
     [name |-> "call", signatures |-> << >>],
     [name |-> "holds", signatures |-> << <<"floor", "request">> >>],
     [name |-> "next_up", signatures |-> << <<"floor", "floor">> >>] >>

exampleTypes == Val(TypeGraph_assemble(ExampleNodeTypes, ExampleEdgeTypes).value)

(* node types and edge-type stubs offered to TypeGraph.assemble            *)
TypeNames == {"elevator", "floor"}
NodeTypeLists ==
  {[i \in DOMAIN names |-> [name |-> names[i], radius |-> 20, oid |-> i]] :
     names \in SeqsUpTo(TypeNames, MaxNodeTypes)}
EdgeTypeStubs ==
  {[name |-> n, signatures |-> s] :
     n \in {"on", "call"}, s \in SeqsUpTo(TypeNames \X TypeNames, MaxSignatures)}

(* node and edge stubs offered to Graph.assemble; "ghost", "bogus" and     *)
(* "zz" name no node type, edge type or node                               *)
NodeStubs ==
  {[id |-> i, type |-> t,
    x |-> IF i = "e1" THEN 350 ELSE 273,
    y |-> IF i = "e1" THEN 74 ELSE 69] :
     i \in {"e1", "f1"}, t \in {"elevator", "floor", "ghost"}}
EdgeStubs ==
  {[id |-> i, type |-> t, source |-> s, target |-> g] :
     i \in {105, 106}, t \in {"on", "call", "next_up", "bogus"},
     s \in {"e1", "f1", "zz"}, g \in {"e1", "f1", "zz"}}

(* values RANDOM_POSITION may return, as (x, y) draws for one node         *)
RandomPoints == {<<350, 74>>, <<0, 499>>}

(* the graphs of the callRequest rule                                      *)
callRequest_LHS ==
  Val(Graph_assemble(exampleTypes,
        << [id |-> "floor", type |-> "floor", x |-> 0, y |-> 0] >>,
        << >>,
        << <<0, 0>> >>).value)
callRequest_RHS ==
  Val(Graph_assemble(exampleTypes,
        << [id |-> "floor", type |-> "floor", x |-> 0, y |-> 0],
           [id |-> "r", type |-> "request", x |-> 50, y |-> 0] >>,
        << [id |-> 0, type |-> "holds", source |-> "floor", target |-> "r"] >>,
        << <<0, 0>>, <<50, 0>> >>).value)

(* ids offered to Morphism.assemble; "zz" and 9 name no element            *)
NodePairs == {"floor", "r", "zz"} \X {"floor", "r", "zz"}
EdgePairs == {0, 9} \X {0, 9}
GraphPairs == {<<callRequest_LHS, callRequest_RHS>>, <<callRequest_RHS, callRequest_LHS>>}


-----------------------------------------------------------------------------
(* The displayed data: the graphs and morphisms of the example rules.      *)
(* Numbers of the store and of the simulation are integers: alpha,         *)
(* edgeStrength and mappingConsistency in tenths, gravityStrength in       *)
(* hundredths.                                                             *)

(* the node ids of each graph and the endpoints of its edges               *)
graphs ==
  [callRequest_LHS |-> [nodes |-> {"floor"}, edges |-> {}],
   callRequest_RHS |-> [nodes |-> {"floor", "r"},
                        edges |-> {[id |-> 0, source |-> "floor", target |-> "r"]}]]

(* the catalogue offered by the dropdown, each morphism with the ids it    *)
(* maps in both directions: callRequest, and a second rule over the same   *)
(* two graphs that maps no element                                         *)
morphisms ==
  [callRequest |->
     [domain |-> "callRequest_LHS", codomain |-> "callRequest_RHS",
      mappingFromDomain |-> [nodes |-> [id \in {"floor"} |-> "floor"]],
      mappingFromCodomain |-> [nodes |-> [id \in {"floor"} |-> "floor"]]],
   unmapped |->
     [domain |-> "callRequest_LHS", codomain |-> "callRequest_RHS",
      mappingFromDomain |-> [nodes |-> << >>],
      mappingFromCodomain |-> [nodes |-> << >>]]]

MorphismNames == {"callRequest", "unmapped"}
GraphNames == {"callRequest_LHS", "callRequest_RHS"}
NodeRefs == {<<g, id>> : g \in GraphNames, id \in {"floor", "r"}} \ {<<"callRequest_LHS", "r">>}
NodeIds(g) == graphs[g].nodes

(* bounds of the model *)
PosMax == 1
AlphaDecay == 5
MaxEngines == 4
MaxGestures == 1

(* the viewport and the d3 defaults of a new simulation *)
Width == 2
Height == 2
AlphaInit == 10
AlphaMin == 1
AlphaRestart == 2
AlphaDragTarget == 3

Grid == 0..PosMax
Clamp(v) == IF v < 0 THEN 0 ELSE IF v > PosMax THEN PosMax ELSE v
Min(a, b) == IF a < b THEN a ELSE b

(* positions a pointer can report, initial positions RANDOM_POSITION can   *)
(* draw, and the displacement one tick's velocity can give a free node     *)
DragPoints == {<<p, p>> : p \in Grid}
StartPoints == {<<p, p>> : p \in Grid}
Moves == {<<-1, -1>>, <<0, 0>>, <<1, 1>>}

-----------------------------------------------------------------------------
(* model.ts: Model, and GraphLayouter.Configuration                         *)

Configuration ==
  [gravityStrength |-> 1,
   nodeRepulsionStrength |-> -120,
   edgeLength |-> 100,
   edgeStrength |-> 2,
   mappingConsistency |-> 3,
   layouterOn |-> TRUE,
   autoCenter |-> TRUE]

(* no set(key, value) ran in the last step                                 *)
NoSet == [set |-> "", invoked |-> << >>]

(* d3.dispatch(...Object.keys(initialModel)): one empty callback list per key *)
Model(initialModel) ==
  [values |-> initialModel, dispatch |-> [k \in DOMAIN initialModel |-> << >>]]

RECURSIVE Without(_, _)
Without(list, name) ==
  IF list = << >> THEN << >>
  ELSE IF Head(list) = name THEN Without(Tail(list), name)
  ELSE <<Head(list)>> \o Without(Tail(list), name)

(* onChange registering every callback of a key under one shared name      *)
onChange_sameName(d, key, name) ==
  IF key \notin DOMAIN d THEN Throw("unknown type")
  ELSE Return([d EXCEPT ![key] = <<name>>])

(* dispatch.on("key.name", callback): a callback registered under the same *)
(* name is replaced; an unknown key is an error                            *)
onChange(d, key, name) ==
  IF key \notin DOMAIN d THEN Throw("unknown type")
  ELSE Return([d EXCEPT ![key] = Append(Without(d[key], name), name)])

-----------------------------------------------------------------------------
(* graph.ts: Graph.Node.isFixed                                             *)

isFixed(n) == n.dragging \/ n.pinned

-----------------------------------------------------------------------------
(* graph-layout.ts: the forces                                              *)

(* makeMorphismForce: n2 = morphism.nodes[n1.id], undefined when n1 has no *)
(* counterpart                                                             *)
Counterpart(mapping, id) ==
  IF id \in DOMAIN mapping.nodes THEN Def(mapping.nodes[id]) ELSE Undefined

(* the accessors .x(n1 => n2 ? n2.x : 0) and .y(n1 => n2 ? n2.y : 0),      *)
(* read from the peer graph's nodes as they are in nodes                   *)
morphismTarget(mapping, peer, id, nodes) ==
  LET n2 == Counterpart(mapping, id)
  IN IF IsDefined(n2) THEN <<nodes[<<peer, Val(n2)>>].x, nodes[<<peer, Val(n2)>>].y>>
     ELSE <<0, 0>>

(* makeMorphismForce.makeStrength(strength)(n1)                            *)
makeStrength(strength, mapping, peer, id, nodes) ==
  LET n2 == Counterpart(mapping, id)
  IN IF ~IsDefined(n2) THEN 0
     ELSE IF nodes[<<peer, Val(n2)>>].pinned THEN Min(10, 2 * strength)
     ELSE strength

(* forceX/forceY initialize(): evaluates the target and strength accessors *)
(* for every node of the simulation and caches the results                 *)
initializeMorphismForce(e, nodes) ==
  [e EXCEPT
     !.xz = [id \in NodeIds(e.graph) |->
               morphismTarget(Val(e.mapping), e.peer, id, nodes)],
     !.strengths = [id \in NodeIds(e.graph) |->
               makeStrength(e.consistency, Val(e.mapping), e.peer, id, nodes)]]

(* the forces the constructor installs with simulation.force(name, ...),   *)
(* in order; makeNodeCollision() is called and its result is not installed *)
InstalledForces ==
  <<"gravityX", "gravityY", "nodeRepulsion", "edgeAttraction", "centering",
    "morphismX", "morphismY">>

(* the keys whose callbacks the make... functions register before the      *)
(* simulation exists, and the two the constructor registers after it       *)
ForceKeys ==
  <<"gravityStrength", "nodeRepulsionStrength", "edgeLength", "edgeStrength",
    "mappingConsistency">>
SimulationKeys == <<"layouterOn", "autoCenter">>

RECURSIVE onChangeAll(_, _, _)
onChangeAll(d, keys, name) ==
  IF keys = << >> THEN d
  ELSE onChangeAll(Val(onChange(d, Head(keys), name).value), Tail(keys), name)

-----------------------------------------------------------------------------
(* graph-layout.ts: GraphLayouter                                           *)

(* restart(): this._simulation.alpha(0.2).restart() when layouterOn;       *)
(* this._simulation is undefined in an instance whose constructor threw    *)
restart(e, layouterOn) ==
  IF ~layouterOn THEN [ok |-> TRUE, engine |-> e]
  ELSE IF ~e.assigned THEN [ok |-> FALSE, engine |-> e]
  ELSE [ok |-> TRUE, engine |-> [e EXCEPT !.alpha = AlphaRestart, !.running = TRUE]]

(* new GraphLayouter(config, graph, morphism, width, height) as instance   *)
(* number count.  d3.forceSimulation() starts its timer at once with alpha *)
(* 1.  Installing morphismX evaluates morphism.nodes[n1.id] for each node: *)
(* with morphism undefined this is a TypeError, raised after the first     *)
(* five forces are installed and before this._simulation is assigned.      *)
GraphLayouter(config, d, count, graph, peer, mapping, nodes) ==
  LET created ==
        [id |-> count, graph |-> graph, peer |-> peer, mapping |-> mapping,
         assigned |-> FALSE, running |-> TRUE,
         alpha |-> AlphaInit, alphaTarget |-> 0,
         forces |-> {InstalledForces[i] : i \in 1..5},
         gravity |-> config.gravityStrength,
         repulsion |-> config.nodeRepulsionStrength,
         linkDistance |-> config.edgeLength,
         linkStrength |-> config.edgeStrength,
         consistency |-> config.mappingConsistency,
         xz |-> [id \in NodeIds(graph) |-> <<0, 0>>],
         strengths |-> [id \in NodeIds(graph) |-> 0]]
      withForceKeys == onChangeAll(d, ForceKeys, count)
  IN IF ~IsDefined(mapping) /\ NodeIds(graph) # {}
     THEN [ok |-> FALSE, error |-> "TypeError",
           engine |-> created, dispatch |-> withForceKeys]
     ELSE [ok |-> TRUE, error |-> "",
           engine |-> [initializeMorphismForce(created, nodes) EXCEPT
                         !.assigned = TRUE,
                         !.forces = {InstalledForces[i] : i \in DOMAIN InstalledForces}],
           dispatch |-> onChangeAll(withForceKeys, SimulationKeys, count)]


(* the callback instance e registered for key, called with the new value;  *)
(* config is the store after the assignment                                *)
callback(key, e, value, config, nodes) ==
  CASE key = "layouterOn" ->
         [ok |-> TRUE,
          engine |-> IF value THEN [e EXCEPT !.alpha = AlphaRestart, !.running = TRUE]
                     ELSE [e EXCEPT !.running = FALSE]]
    [] key = "autoCenter" ->
         restart([e EXCEPT !.forces = IF value THEN @ \cup {"centering"}
                                      ELSE @ \ {"centering"}], config.layouterOn)
    [] key = "gravityStrength" ->
         restart([e EXCEPT !.gravity = value], config.layouterOn)
    [] key = "nodeRepulsionStrength" ->
         restart([e EXCEPT !.repulsion = value], config.layouterOn)
    [] key = "edgeLength" ->
         restart([e EXCEPT !.linkDistance = value], config.layouterOn)
    [] key = "edgeStrength" ->
         restart([e EXCEPT !.linkStrength = value], config.layouterOn)
    [] key = "mappingConsistency" ->
         IF ~IsDefined(e.mapping) /\ NodeIds(e.graph) # {}
         THEN [ok |-> FALSE, engine |-> [e EXCEPT !.consistency = value]]
         ELSE restart(initializeMorphismForce([e EXCEPT !.consistency = value], nodes),
                      config.layouterOn)

(* call returning after the first callback                                 *)
call_firstOnly(key, names, es, value, config, nodes) ==
  IF names = << >> THEN [engines |-> es, thrown |-> FALSE, invoked |-> << >>]
  ELSE LET r == callback(key, es[Head(names)], value, config, nodes)
       IN [engines |-> [es EXCEPT ![Head(names)] = r.engine], thrown |-> ~r.ok,
           invoked |-> << [key |-> key, name |-> Head(names), value |-> value] >>]

(* dispatch.call(key, null, value): the callbacks run in registration      *)
(* order; an exception ends the call                                       *)
RECURSIVE call(_, _, _, _, _, _)
call(key, names, es, value, config, nodes) ==
  IF names = << >> THEN [engines |-> es, thrown |-> FALSE, invoked |-> << >>]
  ELSE LET r == callback(key, es[Head(names)], value, config, nodes)
           called == [es EXCEPT ![Head(names)] = r.engine]
           this == [key |-> key, name |-> Head(names), value |-> value]
       IN IF ~r.ok THEN [engines |-> called, thrown |-> TRUE, invoked |-> <<this>>]
          ELSE LET rest == call(key, Tail(names), called, value, config, nodes)
               IN [rest EXCEPT !.invoked = <<this>> \o @]

-----------------------------------------------------------------------------
(* d3.forceSimulation: one step of the timer                                *)

(* a step that leaves alpha as it is                                       *)
decay_none(alpha, alphaTarget) == alpha

(* alpha += (alphaTarget - alpha) * alphaDecay, at the model's resolution  *)
decay(alpha, alphaTarget) ==
  IF alpha > alphaTarget
  THEN (IF alpha - AlphaDecay < alphaTarget THEN alphaTarget ELSE alpha - AlphaDecay)
  ELSE (IF alpha + AlphaDecay > alphaTarget THEN alphaTarget ELSE alpha + AlphaDecay)

RECURSIVE SumOver(_, _)
SumOver(S, f) ==
  IF S = {} THEN 0
  ELSE LET a == CHOOSE a \in S : TRUE IN f[a] + SumOver(S \ {a}, f)

(* d3.forceCenter(width / 2, height / 2): the offset of the mean position  *)
(* of all the simulation's nodes from the centre, (0, 0) when not installed*)
centeringShift(e, nodes) ==
  LET ids == NodeIds(e.graph)
      n == Cardinality(ids)
  IN IF "centering" \in e.forces /\ n > 0
     THEN << SumOver(ids, [id \in ids |-> nodes[<<e.graph, id>>].x]) \div n - Width \div 2,
             SumOver(ids, [id \in ids |-> nodes[<<e.graph, id>>].y]) \div n - Height \div 2 >>
     ELSE <<0, 0>>

(* tick releasing the pin of every node it integrates                      *)
tick_unpin(e, nodes, move) ==
  LET shift == centeringShift(e, nodes)
  IN [r \in DOMAIN nodes |->
        IF r[1] # e.graph THEN nodes[r]
        ELSE [nodes[r] EXCEPT !.x = Clamp(@ - shift[1] + move[r[2]][1]),
                              !.y = Clamp(@ - shift[2] + move[r[2]][2]),
                              !.pinned = FALSE]]

(* tick(): the forces run in order, the centering force subtracts its      *)
(* shift from node.x and node.y of every node, then                        *)
(*   if (node.fx == null) node.x += node.vx *= velocityDecay;              *)
(*   else node.x = node.fx, node.vx = 0;                                   *)
(* where node.fx is the getter isFixed ? this.x : undefined.  move[id] is  *)
(* the displacement the velocity of a free node gives it.                  *)
tick(e, nodes, move) ==
  LET shift == centeringShift(e, nodes)
  IN [r \in DOMAIN nodes |->
        IF r[1] # e.graph THEN nodes[r]
        ELSE IF isFixed(nodes[r])
             THEN [nodes[r] EXCEPT !.x = Clamp(@ - shift[1]), !.y = Clamp(@ - shift[2])]
             ELSE [nodes[r] EXCEPT !.x = Clamp(@ - shift[1] + move[r[2]][1]),
                                   !.y = Clamp(@ - shift[2] + move[r[2]][2])]]

-----------------------------------------------------------------------------
(* app.ts: showGraph, and part_003: showMorphism                            *)

(* showGraph(svgElement, graph, morphism, ...): a new engine for the graph *)
(* and a new view bound to it; earlier engines are left as they are        *)
showGraph(st, name, graph, peer, mapping, config, nodes) ==
  LET made == GraphLayouter(config, st.dispatch, st.instanceCount + 1,
                            graph, peer, Def(mapping), nodes)
  IN [dispatch |-> made.dispatch,
      instanceCount |-> st.instanceCount + 1,
      engines |-> Append(st.engines, made.engine),
      views |-> Append(st.views,
                  [morphism |-> name, graph |-> graph, engine |-> st.instanceCount + 1])]

showMorphism(st, name, config, nodes) ==
  LET m == morphisms[name]
      first == showGraph([st EXCEPT !.views = << >>], name, m.domain, m.codomain,
                         m.mappingFromDomain, config, nodes)
  IN showGraph(first, name, m.codomain, m.domain,
               m.mappingFromCodomain, config, nodes)

-----------------------------------------------------------------------------
(* Spec: the application                                                    *)

(* run(): the store is constructed and the first morphism is shown; the    *)
(* nodes are where RANDOM_POSITION put them                                *)
Init ==
  /\ asmOp = "none" /\ asmIn = [none |-> TRUE] /\ asmOut = NoCall
  /\ values = Model(Configuration).values
  /\ \E firstMorphism \in MorphismNames, start \in [NodeRefs -> StartPoints] :
       /\ liveNodes = [r \in NodeRefs |->
                         [x |-> start[r][1], y |-> start[r][2],
                          dragging |-> FALSE, pinned |-> FALSE]]
       /\ LET shown == showMorphism([dispatch |-> Model(Configuration).dispatch,
                                     instanceCount |-> 0, engines |-> << >>,
                                     views |-> << >>],
                                    firstMorphism, values, liveNodes)
          IN /\ dispatch = shown.dispatch
             /\ instanceCount = shown.instanceCount
             /\ engines = shown.engines
             /\ views = shown.views
  /\ gestures = {}
  /\ thrown = FALSE
  /\ notified = NoSet
  /\ tickEnd = [r \in NodeRefs |-> Undefined]

(* the dropdown: morphismModel.set('morphism', name) shows the morphism    *)
SelectMorphism(name) ==
  /\ views # << >>
  /\ name # views[1].morphism
  /\ gestures = {}
  /\ instanceCount + 2 <= MaxEngines
  /\ LET shown == showMorphism([dispatch |-> dispatch, instanceCount |-> instanceCount,
                                engines |-> engines, views |-> views],
                               name, values, liveNodes)
     IN /\ dispatch' = shown.dispatch
        /\ instanceCount' = shown.instanceCount
        /\ engines' = shown.engines
        /\ views' = shown.views
  /\ thrown' = FALSE
  /\ notified' = NoSet
  /\ UNCHANGED <<values, liveNodes, gestures, tickEnd, asmVars>>

(* a checkbox or a slider: config.set(key, value)                          *)
Set(key, value) ==
  /\ values' = [values EXCEPT ![key] = value]
  /\ LET r == call(key, dispatch[key], engines, value, values', liveNodes)
     IN /\ engines' = r.engines /\ thrown' = r.thrown
        /\ notified' = [set |-> key, invoked |-> r.invoked]
  /\ UNCHANGED <<dispatch, instanceCount, liveNodes, views, gestures, tickEnd, asmVars>>

(* the timer of engine k fires: step() = tick(), the tick handlers, and    *)
(* stop when alpha < alphaMin                                              *)
Tick(k) ==
  /\ engines[k].running
  /\ LET e == engines[k]
         alpha == decay(e.alpha, e.alphaTarget)
     IN \E move \in [NodeIds(e.graph) -> Moves] :
          /\ \A id \in NodeIds(e.graph) :
               isFixed(liveNodes[<<e.graph, id>>]) => move[id] = <<0, 0>>
          /\ liveNodes' = tick(e, liveNodes, move)
          /\ engines' = [engines EXCEPT ![k] =
               [(IF e.assigned THEN initializeMorphismForce(e, liveNodes') ELSE e)
                  EXCEPT !.alpha = alpha, !.running = (alpha >= AlphaMin)]]
          /\ tickEnd' = [r \in DOMAIN tickEnd |->
               IF r[1] = e.graph THEN Def(<<liveNodes'[r].x, liveNodes'[r].y>>)
               ELSE tickEnd[r]]
  /\ thrown' = FALSE
  /\ notified' = NoSet
  /\ UNCHANGED <<values, dispatch, instanceCount, views, gestures, asmVars>>

(* the number of gestures in progress on the nodes of view v               *)
active(v, gs) == Cardinality({g \in gs : g.view = v})

(* on('start') leaving the alpha target as it is                           *)
DragStart_noTarget(v, id) ==
  /\ v \in DOMAIN views
  /\ id \in NodeIds(views[v].graph)
  /\ [view |-> v, id |-> id] \notin gestures
  /\ Cardinality(gestures) < MaxGestures
  /\ gestures' = gestures \cup {[view |-> v, id |-> id]}
  /\ engines' = IF active(v, gestures) = 0
                THEN [engines EXCEPT ![views[v].engine] =
                        restart(@, values.layouterOn).engine]
                ELSE engines
  /\ liveNodes' = [liveNodes EXCEPT ![<<views[v].graph, id>>].dragging = TRUE]
  /\ thrown' = FALSE
  /\ notified' = NoSet
  /\ UNCHANGED <<values, dispatch, instanceCount, views, tickEnd, asmVars>>

(* dragNodes: on('start')                                                  *)
DragStart(v, id) ==
  /\ v \in DOMAIN views
  /\ id \in NodeIds(views[v].graph)
  /\ [view |-> v, id |-> id] \notin gestures
  /\ Cardinality(gestures) < MaxGestures
  /\ gestures' = gestures \cup {[view |-> v, id |-> id]}
  /\ engines' = IF active(v, gestures) = 0
                THEN [engines EXCEPT ![views[v].engine] =
                        [restart(@, values.layouterOn).engine EXCEPT
                           !.alphaTarget = AlphaDragTarget]]
                ELSE engines
  /\ liveNodes' = [liveNodes EXCEPT ![<<views[v].graph, id>>].dragging = TRUE]
  /\ thrown' = FALSE
  /\ notified' = NoSet
  /\ UNCHANGED <<values, dispatch, instanceCount, views, tickEnd, asmVars>>

(* dragNodes: on('drag'), and the onDrag of showMorphism                   *)
Drag(v, id, p) ==
  /\ [view |-> v, id |-> id] \in gestures
  /\ liveNodes' = [liveNodes EXCEPT ![<<views[v].graph, id>>].x = p[1],
                                    ![<<views[v].graph, id>>].y = p[2]]
  /\ engines' = [k \in DOMAIN engines |->
                   IF \E w \in DOMAIN views : views[w].engine = k
                   THEN restart(engines[k], values.layouterOn).engine
                   ELSE engines[k]]
  /\ thrown' = FALSE
  /\ notified' = NoSet
  /\ UNCHANGED <<values, dispatch, instanceCount, views, gestures, tickEnd, asmVars>>

(* on('end') releasing the pin together with the drag                      *)
DragEnd_unpin(v, id) ==
  /\ [view |-> v, id |-> id] \in gestures
  /\ gestures' = gestures \ {[view |-> v, id |-> id]}
  /\ engines' = IF active(v, gestures') = 0
                THEN [engines EXCEPT ![views[v].engine].alphaTarget = 0]
                ELSE engines
  /\ liveNodes' = [liveNodes EXCEPT ![<<views[v].graph, id>>].dragging = FALSE,
                                    ![<<views[v].graph, id>>].pinned = FALSE]
  /\ thrown' = FALSE
  /\ notified' = NoSet
  /\ UNCHANGED <<values, dispatch, instanceCount, views, tickEnd, asmVars>>

(* dragNodes: on('end')                                                    *)
DragEnd(v, id) ==
  /\ [view |-> v, id |-> id] \in gestures
  /\ gestures' = gestures \ {[view |-> v, id |-> id]}
  /\ engines' = IF active(v, gestures') = 0
                THEN [engines EXCEPT ![views[v].engine].alphaTarget = 0]
                ELSE engines
  /\ liveNodes' = [liveNodes EXCEPT ![<<views[v].graph, id>>].dragging = FALSE]
  /\ thrown' = FALSE
  /\ notified' = NoSet
  /\ UNCHANGED <<values, dispatch, instanceCount, views, tickEnd, asmVars>>

(* NodesView: on('dblclick')                                               *)
DblClick(v, id) ==
  /\ v \in DOMAIN views
  /\ id \in NodeIds(views[v].graph)
  /\ liveNodes' = [liveNodes EXCEPT ![<<views[v].graph, id>>].pinned = ~@]
  /\ thrown' = FALSE
  /\ notified' = NoSet
  /\ UNCHANGED <<values, dispatch, instanceCount, engines, views, gestures, tickEnd, asmVars>>

(* the nodes of a view the pointer acts on                                 *)
Pointed == {<<v, id>> : v \in {1, 2}, id \in {"floor", "r"}}

(* Spec: one morphism on display; the pointer, the autoCenter checkbox and *)
(* the timers of its two engines                                           *)
Next ==
  \/ \E value \in BOOLEAN : Set("autoCenter", value)
  \/ \E k \in DOMAIN engines : Tick(k)
  \/ \E n \in Pointed : DragStart(n[1], n[2])
  \/ \E n \in Pointed, p \in DragPoints : Drag(n[1], n[2], p)
  \/ \E n \in Pointed : DragEnd(n[1], n[2])
  \/ \E n \in Pointed : DblClick(n[1], n[2])

Spec == Init /\ [][Next]_vars

(* SpecSelect: the dropdown, the two checkboxes and the timers             *)
NextSelect ==
  \/ \E name \in MorphismNames : SelectMorphism(name)
  \/ \E key \in {"layouterOn", "autoCenter"} : \E value \in BOOLEAN : Set(key, value)
  \/ \E k \in DOMAIN engines : Tick(k)

SpecSelect == Init /\ [][NextSelect]_vars

(* SpecConsistency: pin toggles, the mappingConsistency slider and the     *)
(* timers                                                                  *)
NextConsistency ==
  \/ \E value \in {3, 6} : Set("mappingConsistency", value)
  \/ \E k \in DOMAIN engines : Tick(k)
  \/ \E n \in Pointed : DblClick(n[1], n[2])

SpecConsistency == Init /\ [][NextConsistency]_vars

(* the program started, with every node drawn at the origin                *)
InitParams ==
  /\ Init
  /\ \A r \in NodeRefs : liveNodes[r].x = 0 /\ liveNodes[r].y = 0

(* SpecGestures: the pointer on the two nodes of the second view, the      *)
(* layouterOn checkbox and the timers                                      *)
NextGestures ==
  \/ \E value \in BOOLEAN : Set("layouterOn", value)
  \/ \E k \in DOMAIN engines : Tick(k)
  \/ \E id \in NodeIds(views[2].graph) : DragStart(2, id)
  \/ \E id \in NodeIds(views[2].graph), p \in DragPoints : Drag(2, id, p)
  \/ \E id \in NodeIds(views[2].graph) : DragEnd(2, id)
  \/ \E id \in NodeIds(views[2].graph) : DblClick(2, id)

SpecGestures == InitParams /\ [][NextGestures]_vars

(* SpecPointer: the pointer on the node of the first view, the gravity     *)
(* slider and the timers                                                   *)
NextPointer ==
  \/ \E value \in {1, 2} : Set("gravityStrength", value)
  \/ \E k \in DOMAIN engines : Tick(k)
  \/ DragStart(1, "floor")
  \/ \E p \in DragPoints : Drag(1, "floor", p)
  \/ DragEnd(1, "floor")
  \/ DblClick(1, "floor")

SpecPointer == Init /\ [][NextPointer]_vars

(* SpecSettle: a drag gesture on the node of the first view, the gravity   *)
(* slider and the timers; while a simulation runs, its d3 timer fires on   *)
(* every animation frame                                                   *)
NextSettle ==
  \/ \E value \in {1, 2} : Set("gravityStrength", value)
  \/ \E k \in DOMAIN engines : Tick(k)
  \/ DragStart(1, "floor")
  \/ \E p \in DragPoints : Drag(1, "floor", p)
  \/ DragEnd(1, "floor")

SpecSettle ==
  /\ InitParams
  /\ [][NextSettle]_vars
  /\ \A k \in 1..2 : WF_vars(Tick(k))

(* SpecParams: the dropdown and every control of the store                 *)
NextParams ==
  \/ \E name \in MorphismNames : SelectMorphism(name)
  \/ \E value \in BOOLEAN : Set("layouterOn", value)
  \/ \E value \in BOOLEAN : Set("autoCenter", value)
  \/ \E value \in {1, 2} : Set("gravityStrength", value)
  \/ \E value \in {-120, -60} : Set("nodeRepulsionStrength", value)
  \/ \E value \in {100, 50} : Set("edgeLength", value)
  \/ \E value \in {2, 4} : Set("edgeStrength", value)
  \/ \E value \in {3, 6} : Set("mappingConsistency", value)

SpecParams == InitParams /\ [][NextParams]_vars

-----------------------------------------------------------------------------
(* SpecPlain: graph-view.ts, showGraph(svgElement, graph, arrowhead,       *)
(* config), which constructs the engine with no mapping                    *)

(* the store is constructed and nothing is shown yet                       *)
InitPlain ==
  /\ asmOp = "none" /\ asmIn = [none |-> TRUE] /\ asmOut = NoCall
  /\ values = Model(Configuration).values
  /\ dispatch = Model(Configuration).dispatch
  /\ instanceCount = 0
  /\ engines = << >>
  /\ \E start \in [NodeRefs -> StartPoints] :
       liveNodes = [r \in NodeRefs |->
                      [x |-> start[r][1], y |-> start[r][2],
                       dragging |-> FALSE, pinned |-> FALSE]]
  /\ views = << >>
  /\ gestures = {}
  /\ thrown = FALSE
  /\ notified = NoSet
  /\ tickEnd = [r \in NodeRefs |-> Undefined]

(* run() shows its graph once: new GraphLayouter(config, graph, width,     *)
(* height); when it throws, the views are not built and no tick handler is *)
(* attached                                                                *)
ShowPlainGraph(graph) ==
  /\ instanceCount = 0
  /\ LET made == GraphLayouter(values, dispatch, instanceCount + 1,
                               graph, graph, Undefined, liveNodes)
     IN /\ dispatch' = made.dispatch
        /\ engines' = Append(engines, made.engine)
        /\ thrown' = ~made.ok
  /\ instanceCount' = instanceCount + 1
  /\ notified' = NoSet
  /\ UNCHANGED <<values, liveNodes, views, gestures, tickEnd, asmVars>>

(* the values the controls offer                                           *)
Offered(key) ==
  CASE key = "layouterOn" -> BOOLEAN
    [] key = "gravityStrength" -> {1, 2}
    [] key = "mappingConsistency" -> {3, 6}

NextPlain ==
  \/ \E graph \in GraphNames : ShowPlainGraph(graph)
  \/ \E key \in {"layouterOn", "gravityStrength", "mappingConsistency"} :
       \E value \in Offered(key) : Set(key, value)
  \/ \E k \in DOMAIN engines : Tick(k)

SpecPlain == InitPlain /\ [][NextPlain]_vars

-----------------------------------------------------------------------------
(* graph-layout.ts: makeEdgeAttraction, the link force of one graph        *)

MaxLinks == 2

(* the nodes of the laid-out graph, with node types of different radius    *)
LinkNodes ==
  [e1 |-> [id |-> "e1", type |-> [name |-> "elevator", radius |-> 20, oid |-> 1]],
   f1 |-> [id |-> "f1", type |-> [name |-> "floor", radius |-> 30, oid |-> 2]],
   r1 |-> [id |-> "r1", type |-> [name |-> "request", radius |-> 10, oid |-> 3]]]

(* the edge lists offered: any source and target, self-loops included      *)
LinkLists ==
  {[i \in DOMAIN ends |-> [id |-> i, source |-> LinkNodes[ends[i][1]],
                           target |-> LinkNodes[ends[i][2]]]] :
     ends \in SeqsUpTo((DOMAIN LinkNodes) \X (DOMAIN LinkNodes), MaxLinks)}

(* edges.forEach counting the source of every edge only                    *)
RECURSIVE countDegree_sourceOnly(_, _, _)
countDegree_sourceOnly(edges, i, degree) ==
  IF i > Len(edges) THEN degree
  ELSE countDegree_sourceOnly(edges, i + 1,
                              [degree EXCEPT ![edges[i].source.id] = @ + 1])

(* edges.forEach(edge => { degree[edge.source.id]++;                       *)
(*                         degree[edge.target.id]++ })                     *)
RECURSIVE countDegree(_, _, _)
countDegree(edges, i, degree) ==
  IF i > Len(edges) THEN degree
  ELSE LET counted == [degree EXCEPT ![edges[i].source.id] = @ + 1]
       IN countDegree(edges, i + 1, [counted EXCEPT ![edges[i].target.id] = @ + 1])

(* the distance accessor: length + both radii                              *)
edgeDistance(length, edge) ==
  length + edge.source.type.radius + edge.target.type.radius

(* makeStrength(strength) of the link force: the quotient                  *)
(* strength / Math.min(degree[source], degree[target]), kept as numerator  *)
(* and denominator                                                         *)
makeLinkStrength(strength, degree, edge) ==
  [num |-> strength,
   den |-> Min(degree[edge.source.id], degree[edge.target.id])]

(* d3.forceLink(edges).distance(...).strength(...), installed: the force   *)
(* holds one distance and one strength per link                            *)
makeEdgeAttraction(config, nodes, edges) ==
  LET degree == countDegree(edges, 1, [id \in DOMAIN nodes |-> 0])
  IN [degree |-> degree,
      distances |-> [i \in DOMAIN edges |-> edgeDistance(config.edgeLength, edges[i])],
      strengths |-> [i \in DOMAIN edges |->
                       makeLinkStrength(config.edgeStrength, degree, edges[i])]]

(* the edgeLength callback: edgeAttraction.distance(...) recomputes the    *)
(* distances                                                               *)
onEdgeLength(force, edges, length) ==
  [force EXCEPT !.distances = [i \in DOMAIN edges |-> edgeDistance(length, edges[i])]]

(* the edgeStrength callback: edgeAttraction.strength(makeStrength(...))   *)
(* recomputes the strengths                                                *)
onEdgeStrength(force, edges, strength) ==
  [force EXCEPT !.strengths =
     [i \in DOMAIN edges |-> makeLinkStrength(strength, force.degree, edges[i])]]

-----------------------------------------------------------------------------
(* SpecStore: get, set and onChange of the store, called as the views of   *)
(* app.ts call them; the callbacks are the views' and change no state here *)

(* the keys the views and the checkboxes use                               *)
StoreKeys == {"layouterOn", "autoCenter", "categoryColors", "categoryLabels"}

(* the names the views of the first graph register their callbacks under   *)
CallbackNames == {"viewNode1", "viewEdge1"}

(* a call that returned nothing                                            *)
Returned == [ok |-> TRUE, error |-> "", value |-> Undefined]

(* new GraphLayouter.Configuration(): nothing is registered yet            *)
InitStore ==
  /\ asmOp = "none"
  /\ asmIn = [none |-> TRUE]
  /\ asmOut = NoCall
  /\ values = Model(Configuration).values
  /\ dispatch = Model(Configuration).dispatch
  /\ instanceCount = 0
  /\ engines = << >>
  /\ liveNodes = << >>
  /\ views = << >>
  /\ gestures = {}
  /\ thrown = FALSE
  /\ notified = NoSet
  /\ tickEnd = [r \in NodeRefs |-> Undefined]

(* get(key): this.values[key], undefined for a key never given             *)
StoreGet(key) ==
  /\ asmOp' = "get"
  /\ asmIn' = [key |-> key]
  /\ asmOut' = Return(Get(values, key))
  /\ notified' = NoSet
  /\ thrown' = FALSE
  /\ UNCHANGED <<values, dispatch, instanceCount, engines, liveNodes, views,
                 gestures, tickEnd>>

(* set(key, value): the value is written, then dispatch.call(key, null,    *)
(* value) throws for a key the dispatch was not created with               *)
StoreSet(key, value) ==
  /\ asmOp' = "set"
  /\ asmIn' = [key |-> key]
  /\ values' = Put(values, key, value)
  /\ IF key \in DOMAIN dispatch
     THEN /\ asmOut' = Returned
          /\ notified' = [set |-> key,
                          invoked |-> [i \in DOMAIN dispatch[key] |->
                             [key |-> key, name |-> dispatch[key][i], value |-> value]]]
     ELSE /\ asmOut' = Throw("unknown type")
          /\ notified' = [set |-> key, invoked |-> << >>]
  /\ thrown' = ~asmOut'.ok
  /\ UNCHANGED <<dispatch, instanceCount, engines, liveNodes, views, gestures, tickEnd>>

(* onChange(`${key}.${name}`, callback)                                    *)
StoreOnChange(key, name) ==
  /\ asmOp' = "onChange"
  /\ asmIn' = [key |-> key]
  /\ LET r == onChange(dispatch, key, name)
     IN /\ dispatch' = (IF r.ok THEN Val(r.value) ELSE dispatch)
        /\ asmOut' = (IF r.ok THEN Returned ELSE r)
  /\ notified' = NoSet
  /\ thrown' = ~asmOut'.ok
  /\ UNCHANGED <<values, instanceCount, engines, liveNodes, views, gestures, tickEnd>>

NextStore ==
  \/ \E key \in StoreKeys : StoreGet(key)
  \/ \E key \in StoreKeys, value \in BOOLEAN : StoreSet(key, value)
  \/ \E key \in StoreKeys, name \in CallbackNames : StoreOnChange(key, name)

SpecStore == InitStore /\ [][NextStore]_vars

-----------------------------------------------------------------------------
(* SpecEdges: the link force of one engine under the two sliders that      *)
(* shape it                                                                *)

(* the engine of a drawn graph is constructed on a new store               *)
InitEdges ==
  /\ asmOp = "makeEdgeAttraction"
  /\ values = Model(Configuration).values
  /\ \E edges \in LinkLists :
       /\ asmIn = [nodes |-> LinkNodes, edges |-> edges]
       /\ asmOut = Return(makeEdgeAttraction(values, LinkNodes, edges))
  /\ dispatch = Model(Configuration).dispatch
  /\ instanceCount = 0
  /\ engines = << >>
  /\ liveNodes = << >>
  /\ views = << >>
  /\ gestures = {}
  /\ thrown = FALSE
  /\ notified = NoSet
  /\ tickEnd = [r \in NodeRefs |-> Undefined]

(* config.set('edgeLength', value) and the callback of the link force      *)
SetEdgeLength(value) ==
  /\ values' = [values EXCEPT !.edgeLength = value]
  /\ asmOut' = Return(onEdgeLength(Val(asmOut.value), asmIn.edges, value))
  /\ UNCHANGED <<asmOp, asmIn, dispatch, instanceCount, engines, liveNodes, views,
                 gestures, thrown, notified, tickEnd>>

(* config.set('edgeStrength', value) and the callback of the link force    *)
SetEdgeStrength(value) ==
  /\ values' = [values EXCEPT !.edgeStrength = value]
  /\ asmOut' = Return(onEdgeStrength(Val(asmOut.value), asmIn.edges, value))
  /\ UNCHANGED <<asmOp, asmIn, dispatch, instanceCount, engines, liveNodes, views,
                 gestures, thrown, notified, tickEnd>>

NextEdges ==
  \/ \E value \in {100, 50} : SetEdgeLength(value)
  \/ \E value \in {2, 4} : SetEdgeStrength(value)

SpecEdges == InitEdges /\ [][NextEdges]_vars

-----------------------------------------------------------------------------
(* SpecAssemble: one call of an assemble function on a drawn input         *)

InitAssemble ==
  /\ asmOp = "none"
  /\ asmIn = [none |-> TRUE]
  /\ asmOut = NoCall
  /\ values = Model(Configuration).values
  /\ dispatch = Model(Configuration).dispatch
  /\ instanceCount = 0
  /\ engines = << >>
  /\ liveNodes = << >>
  /\ views = << >>
  /\ gestures = {}
  /\ thrown = FALSE
  /\ notified = NoSet
  /\ tickEnd = [r \in NodeRefs |-> Undefined]

AssembleTypes ==
  /\ asmOp = "none"
  /\ \E nodeTypes \in NodeTypeLists, edgeTypes \in SeqsUpTo(EdgeTypeStubs, MaxEdgeTypes) :
       /\ asmOp' = "TypeGraph.assemble"
       /\ asmIn' = [nodeTypes |-> nodeTypes, edgeTypes |-> edgeTypes]
       /\ asmOut' = TypeGraph_assemble(nodeTypes, edgeTypes)
  /\ UNCHANGED appVars

AssembleGraph ==
  /\ asmOp = "none"
  /\ \E nodes \in SeqsUpTo(NodeStubs, MaxNodes), edges \in SeqsUpTo(EdgeStubs, MaxEdges) :
       \E rnd \in [DOMAIN nodes -> RandomPoints] :
          /\ asmOp' = "Graph.assemble"
          /\ asmIn' = [types |-> exampleTypes, nodes |-> nodes, edges |-> edges, rnd |-> rnd]
          /\ asmOut' = Graph_assemble(exampleTypes, nodes, edges, rnd)
  /\ UNCHANGED appVars

AssembleMorphism ==
  /\ asmOp = "none"
  /\ \E pair \in GraphPairs,
        nodeMapping \in SeqsUpTo(NodePairs, MaxPairs),
        edgeMapping \in SeqsUpTo(EdgePairs, MaxPairs) :
       /\ asmOp' = "Morphism.assemble"
       /\ asmIn' = [domain |-> pair[1], codomain |-> pair[2],
                    nodeMapping |-> nodeMapping, edgeMapping |-> edgeMapping]
       /\ asmOut' = Morphism_assemble(pair[1], pair[2], nodeMapping, edgeMapping)
  /\ UNCHANGED appVars

NextAssemble == AssembleTypes \/ AssembleGraph \/ AssembleMorphism

SpecAssemble == InitAssemble /\ [][NextAssemble]_vars

-----------------------------------------------------------------------------
(* Properties of Morphism.assemble                                         *)

MorphismReturned == asmOp = "Morphism.assemble" /\ asmOut.ok
returnedMorphism == Val(asmOut.value)

(* C3: every morphism returned by Morphism.assemble has numMappedElements  *)
(* defined and equal to the final value of the class counter, one per      *)
(* node pair and one per edge pair; one node pair and no edge pair give 1. *)
C3_NumMappedElementsCounted ==
  MorphismReturned =>
    /\ IsDefined(returnedMorphism.numMappedElements)
    /\ Val(returnedMorphism.numMappedElements) = Len(asmIn.nodeMapping) + Len(asmIn.edgeMapping)

(* C4: in every morphism returned by Morphism.assemble, for every input    *)
(* node pair and edge pair (d, c), the class index recorded for d on the   *)
(* domain side equals the class index recorded for c on the codomain side. *)
C4_PairsShareClass ==
  MorphismReturned =>
    /\ \A i \in DOMAIN asmIn.nodeMapping :
         returnedMorphism.equivalenceClassFromDomain.nodes[asmIn.nodeMapping[i][1]]
           = returnedMorphism.equivalenceClassFromCodomain.nodes[asmIn.nodeMapping[i][2]]
    /\ \A i \in DOMAIN asmIn.edgeMapping :
         returnedMorphism.equivalenceClassFromDomain.edges[asmIn.edgeMapping[i][1]]
           = returnedMorphism.equivalenceClassFromCodomain.edges[asmIn.edgeMapping[i][2]]

(* a node or edge pair names an id its graph does not have                 *)
NamesMissingElement ==
  \/ \E i \in DOMAIN asmIn.nodeMapping :
       \/ asmIn.nodeMapping[i][1] \notin DOMAIN asmIn.domain.nodes
       \/ asmIn.nodeMapping[i][2] \notin DOMAIN asmIn.codomain.nodes
  \/ \E i \in DOMAIN asmIn.edgeMapping :
       \/ asmIn.edgeMapping[i][1] \notin DOMAIN asmIn.domain.edges
       \/ asmIn.edgeMapping[i][2] \notin DOMAIN asmIn.codomain.edges

(* C5: Morphism.assemble returns no morphism when a pair names an id that  *)
(* is missing from its graph, so that every value of the forward and       *)
(* reverse maps of a returned morphism is an existing element.             *)
C5_MissingReferenceFails ==
  asmOp = "Morphism.assemble" =>
    /\ NamesMissingElement => ~asmOut.ok
    /\ asmOut.ok =>
         /\ \A k \in DOMAIN returnedMorphism.mappingFromDomain.nodes :
              returnedMorphism.mappingFromDomain.nodes[k] \subseteq Values(asmIn.codomain.nodes)
                /\ IsDefined(returnedMorphism.mappingFromDomain.nodes[k])
         /\ \A k \in DOMAIN returnedMorphism.mappingFromCodomain.nodes :
              returnedMorphism.mappingFromCodomain.nodes[k] \subseteq Values(asmIn.domain.nodes)
                /\ IsDefined(returnedMorphism.mappingFromCodomain.nodes[k])
         /\ \A k \in DOMAIN returnedMorphism.mappingFromDomain.edges :
              returnedMorphism.mappingFromDomain.edges[k] \subseteq Values(asmIn.codomain.edges)
                /\ IsDefined(returnedMorphism.mappingFromDomain.edges[k])
         /\ \A k \in DOMAIN returnedMorphism.mappingFromCodomain.edges :
              returnedMorphism.mappingFromCodomain.edges[k] \subseteq Values(asmIn.domain.edges)
                /\ IsDefined(returnedMorphism.mappingFromCodomain.edges[k])

-----------------------------------------------------------------------------
(* Properties of Graph.assemble                                            *)

GraphReturned == asmOp = "Graph.assemble" /\ asmOut.ok
returnedGraph == Val(asmOut.value)

(* C9: for every graph returned by Graph.assemble and every edge e of it,  *)
(* the ordered pair (e.source.type, e.target.type) is one of the           *)
(* signatures of e.type, the node types being compared by identity; an     *)
(* edge type without signatures has no edge.                               *)
C9_EdgesRespectSignatures ==
  GraphReturned =>
    \A e \in Values(returnedGraph.edges) :
       /\ e.type.signatures # << >>
       /\ \E j \in DOMAIN e.type.signatures :
            /\ e.type.signatures[j][1].oid = e.source.type.oid
            /\ e.type.signatures[j][2].oid = e.target.type.oid

C9_Witness ==
  /\ GraphReturned
  /\ \E e \in Values(returnedGraph.edges) :
       e.type.name = "on" /\ e.source.id = "e1" /\ e.target.id = "f1"

(* the type name of the node that stub list nodes keeps under id: the one  *)
(* of the last stub with that id                                           *)
KeptTypeName(nodes, id) ==
  LET last == CHOOSE i \in DOMAIN nodes :
                 nodes[i].id = id /\ \A k \in DOMAIN nodes : nodes[k].id = id => k <= i
  IN nodes[last].type

(* edge stub i of the input resolves (edge type, source and target exist)  *)
(* and its ordered pair of node type names is not a signature of its type  *)
UnlistedSignature(i) ==
  LET stub == asmIn.edges[i]
      ids == {asmIn.nodes[k].id : k \in DOMAIN asmIn.nodes}
  IN /\ \E t \in DOMAIN ExampleEdgeTypes : ExampleEdgeTypes[t].name = stub.type
     /\ stub.source \in ids
     /\ stub.target \in ids
     /\ \A t \in DOMAIN ExampleEdgeTypes : ExampleEdgeTypes[t].name = stub.type =>
          \A j \in DOMAIN ExampleEdgeTypes[t].signatures :
             <<KeptTypeName(asmIn.nodes, stub.source), KeptTypeName(asmIn.nodes, stub.target)>>
               # ExampleEdgeTypes[t].signatures[j]

ElevatorAndFloor(nodes) ==
  /\ Len(nodes) = 2
  /\ nodes[1].id = "e1" /\ nodes[1].type = "elevator"
  /\ nodes[2].id = "f1" /\ nodes[2].type = "floor"

(* C10: Graph.assemble raises an error and returns no graph whenever an    *)
(* edge stub resolves to an ordered (source type, target type) pair that   *)
(* its edge type does not list; the order matters: with the signature      *)
(* [elevator, floor], f1 -> e1 is rejected and e1 -> f1 is accepted.       *)
C10_UnlistedSignatureRejected ==
  asmOp = "Graph.assemble" =>
    /\ (\E i \in DOMAIN asmIn.edges : UnlistedSignature(i)) =>
         ~asmOut.ok /\ asmOut.value = Undefined /\ asmOut.error # ""
    /\ ( /\ ElevatorAndFloor(asmIn.nodes)
         /\ Len(asmIn.edges) = 1
         /\ asmIn.edges[1].type = "on" ) =>
         /\ (asmIn.edges[1].source = "e1" /\ asmIn.edges[1].target = "f1") => asmOut.ok
         /\ (asmIn.edges[1].source = "f1" /\ asmIn.edges[1].target = "e1") =>
              asmOut.error = "invalid types for source and target"

C10_Witness ==
  /\ asmOp = "Graph.assemble"
  /\ ElevatorAndFloor(asmIn.nodes)
  /\ Len(asmIn.edges) = 1
  /\ asmIn.edges[1].type = "on"
  /\ asmIn.edges[1].source = "f1" /\ asmIn.edges[1].target = "e1"
  /\ UnlistedSignature(1)
  /\ ~asmOut.ok

-----------------------------------------------------------------------------
(* Claims about the engine                                                  *)

(* C1: a step of an engine never changes the x or y of a node that is      *)
(* fixed (dragging or pinned) at the time of the step, whichever forces    *)
(* are installed                                                           *)
C1_StepLeavesFixedNodes ==
  [][\A k \in DOMAIN engines :
       Tick(k) =>
         \A id \in NodeIds(engines[k].graph) :
           LET r == <<engines[k].graph, id>>
           IN isFixed(liveNodes[r]) =>
                /\ liveNodes'[r].x = liveNodes[r].x
                /\ liveNodes'[r].y = liveNodes[r].y]_vars

(* C2: the collision force is among the forces installed in every engine   *)
C2_CollisionInstalled ==
  \A k \in DOMAIN engines : "nodeCollision" \in engines[k].forces

(* C6: while layouterOn is false in the store, no engine performs a step   *)
C6_NoStepWhileOff ==
  [][~values.layouterOn => \A k \in DOMAIN engines : ~Tick(k)]_vars

(* C7: in every engine the centering force is installed exactly when the   *)
(* store's autoCenter is true                                              *)
C7_CenteringIffAutoCenter ==
  \A k \in DOMAIN engines :
    ("centering" \in engines[k].forces) <=> values.autoCenter

(* C8: constructing an engine without a mapping succeeds, the engine has   *)
(* no consistency force, and no later handler fails                        *)
C8_PlainConstructionSucceeds ==
  /\ ~thrown
  /\ \A k \in DOMAIN engines :
       ~IsDefined(engines[k].mapping) =>
         /\ engines[k].assigned
         /\ engines[k].forces \cap {"morphismX", "morphismY"} = {}

-----------------------------------------------------------------------------
(* Properties of TypeGraph.assemble                                        *)

(* the names of the node types given to TypeGraph.assemble                  *)
GivenTypeNames == {asmIn.nodeTypes[i].name : i \in DOMAIN asmIn.nodeTypes}

(* some signature of some edge-type stub names a node type not given       *)
DanglingSignature ==
  \E i \in DOMAIN asmIn.edgeTypes :
    \E j \in DOMAIN asmIn.edgeTypes[i].signatures :
       \/ asmIn.edgeTypes[i].signatures[j][1] \notin GivenTypeNames
       \/ asmIn.edgeTypes[i].signatures[j][2] \notin GivenTypeNames

(* C11: TypeGraph.assemble fails and returns no schema whenever a          *)
(* signature names a source or target node type that is not in the         *)
(* node-type list; when it returns a schema, both node types of every      *)
(* signature of every edge type are objects held in the schema's node map. *)
C11_SchemaAllOrNothing ==
  asmOp = "TypeGraph.assemble" =>
    /\ DanglingSignature =>
         ~asmOut.ok /\ asmOut.value = Undefined /\ asmOut.error # ""
    /\ asmOut.ok =>
         \A t \in Values(Val(asmOut.value).edges) :
           \A j \in DOMAIN t.signatures :
              /\ t.signatures[j][1] \in Values(Val(asmOut.value).nodes)
              /\ t.signatures[j][2] \in Values(Val(asmOut.value).nodes)

(* an edge type whose signature has a known source and an unknown target   *)
C11_Witness ==
  /\ asmOp = "TypeGraph.assemble"
  /\ Len(asmIn.edgeTypes) = 1
  /\ \E j \in DOMAIN asmIn.edgeTypes[1].signatures :
       /\ asmIn.edgeTypes[1].signatures[j][1] \in GivenTypeNames
       /\ asmIn.edgeTypes[1].signatures[j][2] \notin GivenTypeNames
  /\ ~asmOut.ok

-----------------------------------------------------------------------------
(* Properties of the equivalence classes of Morphism.assemble              *)

(* the class indices one side of a morphism has in use                     *)
ClassesInUse(classes) == Values(classes.nodes) \cup Values(classes.edges)

(* the ids of one side that carry a class, nodes and edges kept apart      *)
ClassedElements(classes) ==
  {<<"node", k>> : k \in DOMAIN classes.nodes} \cup {<<"edge", k>> : k \in DOMAIN classes.edges}

(* C12: in every morphism returned by Morphism.assemble, on the domain     *)
(* side and on the codomain side, the class indices in use are exactly     *)
(* 0 .. n-1, n being the number of mapped elements (the final value of the *)
(* class counter), and no two elements of a side share an index.           *)
C12_ClassesDense ==
  MorphismReturned =>
    LET n == Len(asmIn.nodeMapping) + Len(asmIn.edgeMapping)
    IN /\ ClassesInUse(returnedMorphism.equivalenceClassFromDomain) = 0..(n - 1)
       /\ ClassesInUse(returnedMorphism.equivalenceClassFromCodomain) = 0..(n - 1)
       /\ Cardinality(ClassedElements(returnedMorphism.equivalenceClassFromDomain)) = n
       /\ Cardinality(ClassedElements(returnedMorphism.equivalenceClassFromCodomain)) = n

(* C13: in every morphism returned by Morphism.assemble, the class maps    *)
(* hold exactly the ids that occur in the pair lists: an id of the domain  *)
(* (codomain) that is first (second) in no pair has no class.              *)
C13_UnmappedHaveNoClass ==
  MorphismReturned =>
    /\ DOMAIN returnedMorphism.equivalenceClassFromDomain.nodes
         = {asmIn.nodeMapping[i][1] : i \in DOMAIN asmIn.nodeMapping}
    /\ DOMAIN returnedMorphism.equivalenceClassFromCodomain.nodes
         = {asmIn.nodeMapping[i][2] : i \in DOMAIN asmIn.nodeMapping}
    /\ DOMAIN returnedMorphism.equivalenceClassFromDomain.edges
         = {asmIn.edgeMapping[i][1] : i \in DOMAIN asmIn.edgeMapping}
    /\ DOMAIN returnedMorphism.equivalenceClassFromCodomain.edges
         = {asmIn.edgeMapping[i][2] : i \in DOMAIN asmIn.edgeMapping}

(* the domain has the nodes floor and r, only floor is mapped, and r has   *)
(* no class                                                                *)
C13_Witness ==
  /\ MorphismReturned
  /\ DOMAIN asmIn.domain.nodes = {"floor", "r"}
  /\ asmIn.nodeMapping = << <<"floor", "floor">> >>
  /\ "r" \notin DOMAIN returnedMorphism.equivalenceClassFromDomain.nodes

-----------------------------------------------------------------------------
(* Properties of the consistency force, restart and the store               *)

(* the strength the consistency force is to apply to node id of engine e:  *)
(* 0 without counterpart, min(1, 2s) with a pinned counterpart, else s     *)
ExpectedStrength(e, id) ==
  IF ~IsDefined(e.mapping) \/ id \notin DOMAIN Val(e.mapping).nodes THEN 0
  ELSE IF liveNodes[<<e.peer, Val(e.mapping).nodes[id]>>].pinned
       THEN (IF 2 * values.mappingConsistency > 10 THEN 10
             ELSE 2 * values.mappingConsistency)
  ELSE values.mappingConsistency

(* C14: in every tick of an engine, the strength the consistency force     *)
(* applies to a node is 0 if it has no counterpart, min(1, 2s) if its      *)
(* counterpart is pinned now, and s otherwise, s being the store's         *)
(* mappingConsistency now                                                  *)
C14_StrengthFollowsPin ==
  [][\A k \in DOMAIN engines :
       Tick(k) =>
         \A id \in NodeIds(engines[k].graph) :
            engines[k].strengths[id] = ExpectedStrength(engines[k], id)]_vars

(* C15: restart() on an engine, when layouterOn is true, leaves alpha not  *)
(* lower than it was and the engine stepping; when layouterOn is false it  *)
(* changes neither alpha nor whether the engine is stepping                *)
C15_RestartReheats ==
  \A k \in DOMAIN engines :
    LET after == restart(engines[k], values.layouterOn).engine
    IN IF values.layouterOn
       THEN after.alpha >= engines[k].alpha /\ after.running
       ELSE after.alpha = engines[k].alpha /\ after.running = engines[k].running

(* the keys whose change reshapes a force                                  *)
ForceShapeKeys ==
  {"gravityStrength", "nodeRepulsionStrength", "edgeLength", "edgeStrength",
   "mappingConsistency", "autoCenter"}

(* engine e has the value of key in the force the key controls             *)
ForceHas(e, key, value) ==
  CASE key = "gravityStrength" -> e.gravity = value
    [] key = "nodeRepulsionStrength" -> e.repulsion = value
    [] key = "edgeLength" -> e.linkDistance = value
    [] key = "edgeStrength" -> e.linkStrength = value
    [] key = "mappingConsistency" -> e.consistency = value
    [] key = "autoCenter" -> ("centering" \in e.forces) = value

(* the values the control of a key offers                                  *)
ControlValues(key) ==
  CASE key \in {"layouterOn", "autoCenter"} -> BOOLEAN
    [] key = "gravityStrength" -> {1, 2}
    [] key = "nodeRepulsionStrength" -> {-120, -60}
    [] key = "edgeLength" -> {100, 50}
    [] key = "edgeStrength" -> {2, 4}
    [] key = "mappingConsistency" -> {3, 6}

(* C16: a set of one of the six force-shaping keys updates the force in    *)
(* every engine constructed on the store and restarts it (alpha 0.2 and    *)
(* stepping when layouterOn, untouched otherwise); every engine ever       *)
(* constructed keeps its callback for each of these keys                   *)
C16_SetReachesEveryEngine ==
  [][/\ \A key \in ForceShapeKeys : \A k \in DOMAIN engines' :
          \E i \in DOMAIN dispatch'[key] : dispatch'[key][i] = k
     /\ \A key \in ForceShapeKeys : \A value \in ControlValues(key) :
          (notified'.set = key /\ Set(key, value)) =>
            \A k \in DOMAIN engines :
              /\ ForceHas(engines'[k], key, value)
              /\ IF values'.layouterOn
                 THEN engines'[k].alpha = AlphaRestart /\ engines'[k].running
                 ELSE /\ engines'[k].alpha = engines[k].alpha
                      /\ engines'[k].running = engines[k].running]_vars

(* four engines, and edgeLength was just set to 50 in all of them          *)
C16_Witness ==
  /\ Len(engines) = 4
  /\ notified.set = "edgeLength"
  /\ Len(notified.invoked) = 4
  /\ \A k \in DOMAIN engines : engines[k].linkDistance = 50

(* C17: set(key, v) makes get(key) return v, leaves the value of every     *)
(* other key as it was, and invokes each callback registered for key       *)
(* exactly once with v, and no callback of another key                     *)
C17_SetNotifiesKey ==
  [][\A key \in DOMAIN values : \A value \in ControlValues(key) :
       (notified'.set = key /\ Set(key, value)) =>
         /\ values'[key] = value
         /\ \A other \in DOMAIN values \ {key} : values'[other] = values[other]
         /\ Len(notified'.invoked) = Len(dispatch[key])
         /\ \A i \in DOMAIN dispatch[key] :
              notified'.invoked[i] = [key |-> key, name |-> dispatch[key][i], value |-> value]
         /\ \A i, j \in DOMAIN dispatch[key] :
              dispatch[key][i] = dispatch[key][j] => i = j]_vars

(* layouterOn was just set to false and two callbacks were invoked         *)
C17_Witness ==
  /\ values.layouterOn = FALSE
  /\ notified.set = "layouterOn"
  /\ Len(notified.invoked) = 2
  /\ notified.invoked[1].name # notified.invoked[2].name

(* C18: the dragging and pinned flags of a node change only in the drag    *)
(* handlers and the double-click handler: a tick, a restart and a          *)
(* parameter change leave them as they are                                 *)
C18_EngineLeavesFlags ==
  [][\/ \A r \in DOMAIN liveNodes :
          /\ liveNodes'[r].dragging = liveNodes[r].dragging
          /\ liveNodes'[r].pinned = liveNodes[r].pinned
     \/ DragStart(1, "floor") \/ DragEnd(1, "floor") \/ DblClick(1, "floor")]_vars

(* the engine of the first view has ticked while its node was pinned and   *)
(* dragged: alpha has reached the drag target                              *)
C18_Witness ==
  /\ liveNodes[<<"callRequest_LHS", "floor">>].pinned
  /\ liveNodes[<<"callRequest_LHS", "floor">>].dragging
  /\ engines[1].alpha = AlphaDragTarget
  /\ IsDefined(tickEnd[<<"callRequest_LHS", "floor">>])

(* C19: in every tick of an engine, the target the consistency force uses  *)
(* for a node is the position its counterpart had when the most recent     *)
(* tick of the peer graph's engine completed                               *)
C19_TargetOnePeerTickOld ==
  [][\A k \in DOMAIN engines :
       Tick(k) =>
         \A id \in NodeIds(engines[k].graph) :
            (/\ IsDefined(engines[k].mapping)
             /\ id \in DOMAIN Val(engines[k].mapping).nodes
             /\ IsDefined(tickEnd[<<engines[k].peer, Val(engines[k].mapping).nodes[id]>>]))
            => engines[k].xz[id]
                 = Val(tickEnd[<<engines[k].peer, Val(engines[k].mapping).nodes[id]>>])]_vars

(* engine k can still write positions: its timer runs or a parameter       *)
(* change calls it                                                         *)
CanStep(k) ==
  \/ engines[k].running
  \/ \E key \in DOMAIN dispatch : \E i \in DOMAIN dispatch[key] : dispatch[key][i] = k

(* C20: for every graph, at most one engine that can still step or be      *)
(* restarted by a parameter change works on it                             *)
C20_OneEnginePerGraph ==
  \A g \in GraphNames :
    Cardinality({k \in DOMAIN engines : engines[k].graph = g /\ CanStep(k)}) <= 1

-----------------------------------------------------------------------------
(* Order of the checks of Graph.assemble                                    *)

(* the first check edge stub i of the input fails, in the order edge type, *)
(* source, target, signature; "" when it passes all four                   *)
FirstFailedCheck(i) ==
  LET stub == asmIn.edges[i]
      ids == {asmIn.nodes[k].id : k \in DOMAIN asmIn.nodes}
  IN IF \A t \in DOMAIN ExampleEdgeTypes : ExampleEdgeTypes[t].name # stub.type
     THEN "unknown edge type"
     ELSE IF stub.source \notin ids THEN "unknown edge source"
     ELSE IF stub.target \notin ids THEN "unknown edge target"
     ELSE IF UnlistedSignature(i) THEN "invalid types for source and target"
     ELSE ""

(* the error Graph.assemble is to report on its input: an unknown node     *)
(* type before anything about an edge, then the first failed check of the  *)
(* first edge stub that fails one; "" when nothing fails                   *)
ExpectedGraphError ==
  IF \E k \in DOMAIN asmIn.nodes :
       \A t \in DOMAIN ExampleNodeTypes : ExampleNodeTypes[t].name # asmIn.nodes[k].type
  THEN "unknown node type"
  ELSE IF \A i \in DOMAIN asmIn.edges : FirstFailedCheck(i) = "" THEN ""
  ELSE LET first == CHOOSE i \in DOMAIN asmIn.edges :
                      /\ FirstFailedCheck(i) # ""
                      /\ \A k \in DOMAIN asmIn.edges : FirstFailedCheck(k) # "" => i <= k
       IN FirstFailedCheck(first)

(* C21: Graph.assemble validates every node stub before any edge stub, and *)
(* for each edge checks edge type, source id, target id and signature in   *)
(* this order; the error it reports is the one of the first failing check, *)
(* and it returns a graph exactly when no check fails                      *)
C21_FirstFailingCheckReported ==
  asmOp = "Graph.assemble" =>
    /\ asmOut.error = ExpectedGraphError
    /\ asmOut.ok <=> ExpectedGraphError = ""

(* an edge with an unknown type and an unknown source over valid nodes     *)
(* reports the unknown edge type                                           *)
C21_Witness ==
  /\ asmOp = "Graph.assemble"
  /\ Len(asmIn.nodes) = 1 /\ asmIn.nodes[1].type = "floor"
  /\ Len(asmIn.edges) = 1
  /\ asmIn.edges[1].type = "bogus" /\ asmIn.edges[1].source = "zz"
  /\ asmOut.error = "unknown edge type"

-----------------------------------------------------------------------------
(* Class indices and reverse maps of Morphism.assemble                      *)

(* C22: in every morphism returned by Morphism.assemble, the i-th node     *)
(* pair (counted from 0, in input order) has class index i on both sides   *)
(* and the j-th edge pair has index (number of node pairs) + j; assembling *)
(* the same input again yields the same class maps                         *)
C22_ClassIndexIsPairPosition ==
  MorphismReturned =>
    /\ \A i \in DOMAIN asmIn.nodeMapping :
         /\ returnedMorphism.equivalenceClassFromDomain.nodes[asmIn.nodeMapping[i][1]] = i - 1
         /\ returnedMorphism.equivalenceClassFromCodomain.nodes[asmIn.nodeMapping[i][2]] = i - 1
    /\ \A j \in DOMAIN asmIn.edgeMapping :
         /\ returnedMorphism.equivalenceClassFromDomain.edges[asmIn.edgeMapping[j][1]]
              = Len(asmIn.nodeMapping) + j - 1
         /\ returnedMorphism.equivalenceClassFromCodomain.edges[asmIn.edgeMapping[j][2]]
              = Len(asmIn.nodeMapping) + j - 1
    /\ LET again == Val(Morphism_assemble(asmIn.domain, asmIn.codomain,
                                          asmIn.nodeMapping, asmIn.edgeMapping).value)
       IN /\ again.equivalenceClassFromDomain = returnedMorphism.equivalenceClassFromDomain
          /\ again.equivalenceClassFromCodomain = returnedMorphism.equivalenceClassFromCodomain

(* C26: in every morphism returned by Morphism.assemble the reverse maps   *)
(* are the inverse of the forward maps: for every domain id d that the     *)
(* forward map sends to an element c, the reverse map sends the id of c to *)
(* the domain element with id d, for nodes and for edges, whatever the     *)
(* pair lists (non-injective ones included)                                *)
C26_ReverseInvertsForward ==
  MorphismReturned =>
    /\ \A d \in DOMAIN returnedMorphism.mappingFromDomain.nodes :
         IsDefined(returnedMorphism.mappingFromDomain.nodes[d]) =>
           /\ returnedMorphism.mappingFromCodomain.nodes[
                  Val(returnedMorphism.mappingFromDomain.nodes[d]).id]
             = Get(asmIn.domain.nodes, d)
           /\ IsDefined(Get(asmIn.domain.nodes, d))
    /\ \A d \in DOMAIN returnedMorphism.mappingFromDomain.edges :
         IsDefined(returnedMorphism.mappingFromDomain.edges[d]) =>
           /\ returnedMorphism.mappingFromCodomain.edges[
                  Val(returnedMorphism.mappingFromDomain.edges[d]).id]
             = Get(asmIn.domain.edges, d)
           /\ IsDefined(Get(asmIn.domain.edges, d))

-----------------------------------------------------------------------------
(* Nodes of the graphs Graph.assemble returns                               *)

(* the position in the stub list of the last stub with the given id        *)
LastStubWith(nodes, id) ==
  CHOOSE i \in DOMAIN nodes :
     nodes[i].id = id /\ \A k \in DOMAIN nodes : nodes[k].id = id => k <= i

(* C27: in every graph returned by Graph.assemble, the source and the      *)
(* target of every edge are the node objects the graph holds under their   *)
(* ids; when the stub list repeats an id, the node held (and referenced)   *)
(* is the one made from the last stub with that id                         *)
C27_EdgesReferenceOwnNodes ==
  GraphReturned =>
    /\ \A e \in Values(returnedGraph.edges) :
         /\ Get(returnedGraph.nodes, e.source.id) = Def(e.source)
         /\ Get(returnedGraph.nodes, e.target.id) = Def(e.target)
    /\ \A id \in DOMAIN returnedGraph.nodes :
         /\ returnedGraph.nodes[id].oid = LastStubWith(asmIn.nodes, id)
         /\ returnedGraph.nodes[id].type.name = asmIn.nodes[LastStubWith(asmIn.nodes, id)].type

(* two stubs with the id e1 and different types, and an edge from e1       *)
C27_Witness ==
  /\ GraphReturned
  /\ Len(asmIn.nodes) = 2
  /\ asmIn.nodes[1].id = "e1" /\ asmIn.nodes[2].id = "e1"
  /\ asmIn.nodes[1].type # asmIn.nodes[2].type
  /\ \E e \in Values(returnedGraph.edges) : e.source.id = "e1" /\ e.source.oid = 2

(* C28: in every graph returned by Graph.assemble, every node has dragging *)
(* and pinned false, and its x and y are the x and y of its node stub      *)
C28_NodesStartFreeAtStubPosition ==
  GraphReturned =>
    \A id \in DOMAIN returnedGraph.nodes :
       /\ ~returnedGraph.nodes[id].dragging
       /\ ~returnedGraph.nodes[id].pinned
       /\ returnedGraph.nodes[id].x = asmIn.nodes[LastStubWith(asmIn.nodes, id)].x
       /\ returnedGraph.nodes[id].y = asmIn.nodes[LastStubWith(asmIn.nodes, id)].y

-----------------------------------------------------------------------------
(* The keys of the store                                                    *)

(* C25: get, set and onChange on the keys categoryColors and               *)
(* categoryLabels of the store the engine is built on succeed              *)
C25_CategoryKeysCarried ==
  (asmOp \in {"get", "set", "onChange"} /\ asmIn.key \in {"categoryColors", "categoryLabels"})
    => asmOut.ok

-----------------------------------------------------------------------------
(* The link force                                                           *)

(* the number of edge ends at node id: a self-loop counts twice            *)
EndsAt(edges, id) ==
  Cardinality({i \in DOMAIN edges : edges[i].source.id = id})
    + Cardinality({i \in DOMAIN edges : edges[i].target.id = id})

(* C24: for every edge of the laid-out graph the rest length is edgeLength *)
(* plus the radii of its source and target types, and the strength is      *)
(* edgeStrength over the smaller of the degrees of its two ends, a degree  *)
(* counting edge ends (a self-loop twice); the divisor is at least 1; both *)
(* follow the store's edgeLength and edgeStrength through every set        *)
C24_SpringsFollowStore ==
  asmOp = "makeEdgeAttraction" =>
    \A i \in DOMAIN asmIn.edges :
       LET e == asmIn.edges[i]
           ends == IF EndsAt(asmIn.edges, e.source.id) <= EndsAt(asmIn.edges, e.target.id)
                   THEN EndsAt(asmIn.edges, e.source.id)
                   ELSE EndsAt(asmIn.edges, e.target.id)
       IN /\ Val(asmOut.value).distances[i]
               = values.edgeLength + e.source.type.radius + e.target.type.radius
          /\ Val(asmOut.value).strengths[i] = [num |-> values.edgeStrength, den |-> ends]
          /\ Val(asmOut.value).strengths[i].den >= 1

(* a self-loop and an edge leaving the same node, after both sliders moved *)
C24_Witness ==
  /\ asmOp = "makeEdgeAttraction"
  /\ Len(asmIn.edges) = 2
  /\ asmIn.edges[1].source.id = "e1" /\ asmIn.edges[1].target.id = "e1"
  /\ asmIn.edges[2].source.id = "e1" /\ asmIn.edges[2].target.id = "f1"
  /\ values.edgeLength = 50 /\ values.edgeStrength = 4
  /\ Val(asmOut.value).distances[2] = 100
  /\ Val(asmOut.value).strengths[1] = [num |-> 4, den |-> 3]
  /\ Val(asmOut.value).strengths[2] = [num |-> 4, den |-> 1]

-----------------------------------------------------------------------------
(* Settling and gestures                                                    *)

(* C23: with no gesture in progress every step of an engine lowers its     *)
(* alpha; a stopped engine moves no node of its graph; and if from some    *)
(* point on there is no gesture in progress and nothing but timers fire    *)
(* (no restart, parameter change, drag event or pin toggle), then every    *)
(* engine eventually stops stepping for good                               *)
C23_QuietEngineSettles ==
  /\ [][\A k \in DOMAIN engines :
          /\ (Tick(k) /\ gestures = {}) => engines'[k].alpha < engines[k].alpha
          /\ ~engines[k].running =>
               \/ \A id \in NodeIds(engines[k].graph) :
                     /\ liveNodes'[<<engines[k].graph, id>>].x = liveNodes[<<engines[k].graph, id>>].x
                     /\ liveNodes'[<<engines[k].graph, id>>].y = liveNodes[<<engines[k].graph, id>>].y
               \/ \E p \in DragPoints : Drag(1, "floor", p)]_vars
  /\ ( /\ <>[](gestures = {})
       /\ <>[][\E k \in DOMAIN engines : Tick(k)]_vars )
       => <>[](\A k \in DOMAIN engines : ~engines[k].running)

(* an engine that was restarted by a drag has stopped again                *)
C23_Witness ==
  /\ gestures = {}
  /\ IsDefined(tickEnd[<<"callRequest_LHS", "floor">>])
  /\ liveNodes[<<"callRequest_LHS", "floor">>].x # 0
  /\ \A k \in DOMAIN engines : ~engines[k].running /\ engines[k].alpha < AlphaMin

====
